---- MODULE Spec2Model ----
(***************************************************************************)
(* Model of src/index.tsx: the virtual try-on page.  Two upload slots      *)
(* (person, outfit) are filled by asynchronous file reads; the generate    *)
(* button sends both payloads to the image service and presents the        *)
(* response.  Every handler and every continuation after an await is one   *)
(* action, since JavaScript runs each of them to completion.               *)
(***************************************************************************)
EXTENDS Integers, Sequences, FiniteSets, TLC

\* ---------------------------------------------------------------- bounds
MaxUploads == 3      \* calls of handleFileUpload with a file in one run
MaxClicks == 2       \* clicks that pass the precondition in one run
MaxParts == 2        \* parts in the content of a response candidate

\* ---------------------------------------------------------------- values
\* An optional value (T | null | undefined) is a sequence of length <= 1.
Null == <<>>
Some(x) == <<x>>
Get(o) == o[1]

\* Strings that the code parses are sequences of characters.
Chars(s) ==
  CASE s = "image/png" -> <<"i","m","a","g","e","/","p","n","g">>
    [] s = "image/jpeg" -> <<"i","m","a","g","e","/","j","p","e","g">>
    [] s = "data:" -> <<"d","a","t","a",":">>
    [] s = ";base64," -> <<";","b","a","s","e","6","4",",">>
    [] s = "QUJD" -> <<"Q","U","J","D">>
    [] s = "WFla" -> <<"W","F","l","a">>

\* The files a user can pick: declared media type and base64 of the content.
Files ==
  { [type |-> Chars("image/png"), b64 |-> Chars("QUJD")],
    [type |-> Chars("image/jpeg"), b64 |-> Chars("WFla")] }

Types == {"person", "outfit"}

\* FileReader.readAsDataURL: "data:<type>;base64,<content>".
ReadAsDataURL(file) == Chars("data:") \o file.type \o Chars(";base64,") \o file.b64

\* String.prototype.split(sep) for a one-character separator.
RECURSIVE SplitAcc(_, _, _)
SplitAcc(s, sep, cur) ==
  IF s = <<>> THEN <<cur>>
  ELSE IF Head(s) = sep THEN <<cur>> \o SplitAcc(Tail(s), sep, <<>>)
  ELSE SplitAcc(Tail(s), sep, Append(cur, Head(s)))

Split(s, sep) == SplitAcc(s, sep, <<>>)

\* Mutant: index 0 of the split.
Base64Of_first(result) == Split(result, ",")[1]

\* reader.result.split(',')[1] (index 1 of a 0-based array).
Base64Of(result) == Split(result, ",")[2]

fileToGenerativePart(file) ==
  [inlineData |-> [data |-> Base64Of(ReadAsDataURL(file)), mimeType |-> file.type]]

\* ------------------------------------------------------- service outcomes
ImagePart(m, c) == [inlineData |-> Some([mimeType |-> m, data |-> c]), text |-> Null]
TextPart(t) == [inlineData |-> Null, text |-> Some(t)]

PartSet ==
  { ImagePart("image/png", "ABC"), ImagePart("image/jpeg", "XYZ"),
    TextPart("Cannot process"), TextPart("") }

PartSeqs == UNION { [1..n -> PartSet] : n \in 0..MaxParts }

Candidate(parts) == [content |-> Some([parts |-> Some(parts)])]

Rejected == [kind |-> "reject", candidates |-> <<>>]
Response(cands) == [kind |-> "response", candidates |-> cands]

\* What the awaited ai.models.generateContent call can produce: a rejection,
\* or a response with no candidate, a candidate without content, a content
\* without parts, or one candidate with up to MaxParts parts; and a response
\* whose second candidate holds an image while the first holds text.
Outcomes ==
  { Rejected, Response(<<>>), Response(<<[content |-> Null]>>),
    Response(<<[content |-> Some([parts |-> Null])]>>),
    Response(<<Candidate(<<TextPart("Cannot process")>>),
               Candidate(<<ImagePart("image/png", "ABC")>>)>>) }
  \cup { Response(<<Candidate(ps)>>) : ps \in PartSeqs }

\* ------------------------------------------------------------- messages
MissingInputMessage == "Please upload both a person and an outfit image."
FallbackMessage == "Sorry, I couldn't generate an image. Please try again with different images."
\* Mutant: the catch block reuses the fallback message.
CatchMessage_fallback == FallbackMessage

CatchMessage == "An error occurred while generating the image. Please check the console for details."

\* The disabled attribute of the button in the page markup.
InitialDisabled == TRUE

\* ---------------------------------------------------------------- state
VARIABLES
  personFileData,   \* Null or Some(payload)
  outfitFileData,   \* Null or Some(payload)
  disabled,         \* generateButton.disabled
  loader,           \* loader.style.display
  errorText,        \* errorContainer.textContent
  errorDisplay,     \* errorContainer.style.display
  resultsVisible,   \* resultsSection has class 'visible'
  resultImage,      \* [src, display] of resultImage
  downloadButton,   \* [href, display] of downloadButton
  preview,          \* per slot: Null or Some(src) of the preview image
  reads,            \* the uploads whose file reads are pending
  requests,         \* id -> payloads of the service calls in flight
  nUploads,         \* handleFileUpload calls that started a read
  inputFiles,       \* per slot: files[0] of its file input, Null or Some(file)
  sent              \* calls of ai.models.generateContent

vars == <<personFileData, outfitFileData, disabled, loader, errorText,
          errorDisplay, resultsVisible, resultImage, downloadButton, preview,
          reads, requests, nUploads, inputFiles, sent>>

ui == <<loader, errorText, errorDisplay, resultsVisible, resultImage, downloadButton>>
slots == <<personFileData, outfitFileData>>

Init ==
  /\ personFileData = Null
  /\ outfitFileData = Null
  /\ disabled = InitialDisabled
  /\ loader = "none"
  /\ errorText = ""
  /\ errorDisplay = "none"
  /\ resultsVisible = FALSE
  /\ resultImage = [src |-> "", display |-> "none"]
  /\ downloadButton = [href |-> "", display |-> "none"]
  /\ preview = [t \in Types |-> Null]
  /\ reads = {}
  /\ requests = << >>
  /\ nUploads = 0
  /\ inputFiles = [t \in Types |-> Null]
  /\ sent = 0

\* ------------------------------------------------------------- uploads
\* Mutant: one populated slot is enough to enable the button.
updateGenerateButtonState_either(person, outfit) == ~(person # Null \/ outfit # Null)

\* Mutant: the negation is forgotten.
updateGenerateButtonState_inverted(person, outfit) == person # Null /\ outfit # Null

\* generateButton.disabled after updateGenerateButtonState().
updateGenerateButtonState(person, outfit) == ~(person # Null /\ outfit # Null)

\* handleFileUpload(file, type) up to reader.readAsDataURL(file); without a
\* file it returns at once.
handleFileUpload(file, type) ==
  /\ file # Null
  /\ nUploads < MaxUploads
  /\ nUploads' = nUploads + 1
  /\ reads' = reads \cup {[id |-> nUploads + 1, type |-> type, file |-> Get(file), stage |-> "preview"]}
  /\ UNCHANGED <<slots, disabled, ui, preview, requests, sent>>

\* reader.onload up to the await: the preview is shown and the second read starts.
PreviewLoaded(t) ==
  /\ t \in reads /\ t.stage = "preview"
  /\ preview' = [preview EXCEPT ![t.type] = Some(ReadAsDataURL(t.file))]
  /\ reads' = (reads \ {t}) \cup {[t EXCEPT !.stage = "encode"]}
  /\ UNCHANGED <<slots, disabled, ui, requests, nUploads, inputFiles, sent>>

\* The first read fails: onload never fires.
PreviewFailed(t) ==
  /\ t \in reads /\ t.stage = "preview"
  /\ reads' = reads \ {t}
  /\ UNCHANGED <<slots, disabled, ui, preview, requests, nUploads, inputFiles, sent>>

\* Mutant: a completed upload resets the other slot.
EncodeLoaded_resetOther(t) ==
  /\ t \in reads /\ t.stage = "encode"
  /\ LET part == fileToGenerativePart(t.file)
         person == IF t.type = "person" THEN Some(part.inlineData) ELSE Null
         outfit == IF t.type = "person" THEN Null ELSE Some(part.inlineData)
     IN /\ personFileData' = person
        /\ outfitFileData' = outfit
        /\ disabled' = updateGenerateButtonState(person, outfit)
  /\ reads' = reads \ {t}
  /\ UNCHANGED <<ui, preview, requests, nUploads, inputFiles, sent>>

\* reader.onloadend of fileToGenerativePart and the rest of reader.onload.
EncodeLoaded(t) ==
  /\ t \in reads /\ t.stage = "encode"
  /\ LET part == fileToGenerativePart(t.file)
         person == IF t.type = "person" THEN Some(part.inlineData) ELSE personFileData
         outfit == IF t.type = "person" THEN outfitFileData ELSE Some(part.inlineData)
     IN /\ personFileData' = person
        /\ outfitFileData' = outfit
        /\ disabled' = updateGenerateButtonState(person, outfit)
  /\ reads' = reads \ {t}
  /\ UNCHANGED <<ui, preview, requests, nUploads, inputFiles, sent>>

\* Mutant: a failed second read clears the slot and disables the button.
EncodeFailed_clears(t) ==
  /\ t \in reads /\ t.stage = "encode"
  /\ reads' = reads \ {t}
  /\ personFileData' = IF t.type = "person" THEN Null ELSE personFileData
  /\ outfitFileData' = IF t.type = "person" THEN outfitFileData ELSE Null
  /\ disabled' = TRUE
  /\ UNCHANGED <<ui, preview, requests, nUploads, inputFiles, sent>>

\* The second read fails: reader.result is null, the split throws inside
\* onloadend and the promise never resolves.
EncodeFailed(t) ==
  /\ t \in reads /\ t.stage = "encode"
  /\ reads' = reads \ {t}
  /\ UNCHANGED <<slots, disabled, ui, preview, requests, nUploads, inputFiles, sent>>

\* ------------------------------------------------------------- generation
\* displayError(message): the new error text, error display and loader display.
displayError(message) == [text |-> message, display |-> "block", loader |-> "none"]

\* Mutant: the precondition is dropped.
MissingInput_never(person, outfit) == FALSE

\* Mutant: the handler returns early only when both slots are empty.
MissingInput_both(person, outfit) == person = Null /\ outfit = Null

\* The precondition of the click handler: !personFileData || !outfitFileData.
MissingInput(person, outfit) == person = Null \/ outfit = Null

\* Mutant: the two image parts are sent in the wrong order.
RequestParts_swapped(person, outfit) == [person |-> outfit, outfit |-> person]

\* The image parts of the request, read from the slots when the call is made.
RequestParts(person, outfit) == [person |-> person, outfit |-> outfit]

\* The click handler up to the await of ai.models.generateContent.
OnGenerateClick ==
  /\ IF MissingInput(personFileData, outfitFileData)
     THEN LET e == displayError(MissingInputMessage)
          IN /\ errorText' = e.text
             /\ errorDisplay' = e.display
             /\ loader' = e.loader
             /\ UNCHANGED <<disabled, resultsVisible, resultImage, downloadButton, requests, sent>>
     ELSE /\ sent < MaxClicks
          /\ errorDisplay' = "none"
          /\ resultsVisible' = TRUE
          /\ resultImage' = [resultImage EXCEPT !.display = "none"]
          /\ downloadButton' = [downloadButton EXCEPT !.display = "none"]
          /\ loader' = "block"
          /\ disabled' = TRUE
          /\ sent' = sent + 1
          /\ requests' = requests @@ ((sent + 1) :> RequestParts(personFileData, outfitFileData))
          /\ UNCHANGED errorText
  /\ UNCHANGED <<slots, preview, reads, nUploads, inputFiles>>

\* A click of the user: the browser delivers no click to a disabled button.
GenerateClick == ~disabled /\ OnGenerateClick

\* The listener run although the button is disabled (a synthetic event).
DispatchClick == disabled /\ OnGenerateClick

\* Array.prototype.find: the first element at an index where the predicate
\* holds (hits), if any.
Find(parts, hits) ==
  IF hits = {} THEN Null
  ELSE Some(parts[CHOOSE i \in hits : \A j \in hits : i <= j])

\* part => part.inlineData: the indexes of the parts with inline data.
HasInlineData(parts) == {i \in 1..Len(parts) : parts[i].inlineData # Null}
\* part => part.text: the text is truthy, present and not the empty string.
HasText(parts) == {i \in 1..Len(parts) : parts[i].text # Null /\ Get(parts[i].text) # ""}

\* response.candidates?.[0]?.content: Null when the chain short-circuits.
FirstContent(response) ==
  IF response.candidates = <<>> THEN Null ELSE response.candidates[1].content

\* The try block throws: the call rejected, or .parts is undefined and
\* .find is called on it.
Throws(outcome) ==
  \/ outcome.kind = "reject"
  \/ FirstContent(outcome) # Null /\ Get(FirstContent(outcome)).parts = Null

\* The parts searched by find; none when the optional chain short-circuits.
PartsOf(response) ==
  IF FirstContent(response) = Null THEN <<>> ELSE Get(Get(FirstContent(response)).parts)

\* Mutant: the data URI loses its media type.
imageUrl_noType(inlineData) == "data:;base64," \o inlineData.data

imageUrl(inlineData) == "data:" \o inlineData.mimeType \o ";base64," \o inlineData.data

\* Mutant: the download link gets its target but is never shown.
showResult_hiddenDownload(url) ==
  [image |-> [src |-> url, display |-> "block"],
   download |-> [href |-> url, display |-> "none"]]

\* The image branch: src and display of resultImage, href and display of
\* downloadButton.
showResult(url) ==
  [image |-> [src |-> url, display |-> "block"],
   download |-> [href |-> url, display |-> "inline-block"]]

\* textPart?.text || fallback.
errorMessage(textPart) == IF textPart = Null THEN FallbackMessage ELSE Get(Get(textPart).text)

\* Mutant: the finally block forgets to re-enable the button.
finallyState_stuck == [loader |-> "none", disabled |-> TRUE]

\* The finally block: loader display and generateButton.disabled.
finallyState == [loader |-> "none", disabled |-> FALSE]

\* The click handler from the return of the awaited call to its end.
Resolve(id, outcome) ==
  /\ id \in DOMAIN requests
  /\ requests' = [i \in DOMAIN requests \ {id} |-> requests[i]]
  /\ IF Throws(outcome)
     THEN LET e == displayError(CatchMessage)
          IN /\ errorText' = e.text
             /\ errorDisplay' = e.display
             /\ UNCHANGED <<resultImage, downloadButton>>
     ELSE LET imagePart == Find(PartsOf(outcome), HasInlineData(PartsOf(outcome)))
          IN IF imagePart # Null
             THEN LET shown == showResult(imageUrl(Get(Get(imagePart).inlineData)))
                  IN /\ resultImage' = shown.image
                     /\ downloadButton' = shown.download
                     /\ UNCHANGED <<errorText, errorDisplay>>
             ELSE LET e == displayError(errorMessage(Find(PartsOf(outcome), HasText(PartsOf(outcome)))))
                  IN /\ errorText' = e.text
                     /\ errorDisplay' = e.display
                     /\ UNCHANGED <<resultImage, downloadButton>>
  /\ loader' = finallyState.loader
  /\ disabled' = finallyState.disabled
  /\ UNCHANGED <<slots, resultsVisible, preview, reads, nUploads, inputFiles, sent>>

\* ------------------------------------------------------- specifications
\* A change or drop event: the input of the slot holds the selection and
\* handleFileUpload gets files[0] of it, or no file.
Upload ==
  \E f \in {Null} \cup {Some(x) : x \in Files}, ty \in Types :
    /\ handleFileUpload(f, ty)
    /\ inputFiles' = [inputFiles EXCEPT ![ty] = f]
ReadStep ==
  \/ \E t \in reads : PreviewLoaded(t)
  \/ \E t \in reads : PreviewFailed(t)
  \/ \E t \in reads : EncodeLoaded(t)
  \/ \E t \in reads : EncodeFailed(t)
ResolveAny == \E id \in DOMAIN requests, o \in Outcomes : Resolve(id, o)

\* The page driven by a user through the browser.
UserNext == Upload \/ ReadStep \/ GenerateClick \/ ResolveAny
UserSpec == Init /\ [][UserNext]_vars

\* The page with the listener also reachable while the button is disabled.
Next == UserNext \/ DispatchClick
Spec == Init /\ [][Next]_vars

\* The page driven by a user when no file read fails.
ReadsLoadNext ==
  \/ Upload
  \/ \E t \in reads : PreviewLoaded(t)
  \/ \E t \in reads : EncodeLoaded(t)
  \/ GenerateClick
  \/ ResolveAny
ReadsLoadSpec == Init /\ [][ReadsLoadNext]_vars

\* The service call settles and its continuation runs.
LiveSpec == Init /\ [][Next]_vars /\ WF_vars(ResolveAny)

TypeOK ==
  /\ disabled \in BOOLEAN
  /\ loader \in {"none", "block"}
  /\ errorDisplay \in {"none", "block"}
  /\ nUploads \in 0..MaxUploads /\ sent \in 0..MaxClicks
  /\ DOMAIN requests \subseteq 1..sent

\* ================================================================ claims
InFlight == DOMAIN requests
BothLoaded == personFileData # Null /\ outfitFileData # Null
ClickStep == GenerateClick \/ DispatchClick

\* C1: in every reachable state the generate trigger is enabled only if both
\* slots are non-null; with zero or one slot populated it is disabled.
C1_EnabledOnlyWhenBothLoaded == ~disabled => BothLoaded

\* C1 witness: the trigger is enabled again after an attempt, both slots loaded.
C1_Witness == ~disabled /\ BothLoaded /\ sent > 0 /\ InFlight = {}

\* C2 (as claimed): while a generation request is in flight the trigger is
\* disabled and the busy indicator is shown, also when an upload completes
\* during the request.
C2_InFlightDisabledAndBusy == InFlight # {} => (disabled /\ loader = "block")

\* C3 (as claimed): when clicks happen only while the trigger is enabled, at
\* most one generation request is in flight at any time.
C3_AtMostOneInFlight == Cardinality(InFlight) <= 1

\* C4: every attempt that passed the precondition ends, whatever its outcome,
\* in a state with the busy indicator hidden and the trigger enabled; and if
\* the service call settles, every dispatched request is eventually followed
\* by such a state.
C4_AttemptEndsInteractable ==
  /\ [][(InFlight \ InFlight' # {}) => (loader' = "none" /\ ~disabled')]_vars
  /\ \A id \in 1..MaxClicks :
       (id \in InFlight) ~> (id \notin InFlight /\ loader = "none" /\ ~disabled)

\* C4 witness: an attempt ended by an exception left the page interactable.
C4_Witness ==
  /\ sent > 0 /\ InFlight = {} /\ loader = "none" /\ ~disabled
  /\ errorDisplay = "block"
  /\ errorText = "An error occurred while generating the image. Please check the console for details."

\* C5: a generate action invoked while a slot is null sends no request and
\* displays 'Please upload both a person and an outfit image.'; the slots, the
\* trigger's enabled flag and the visibility of the result image and of the
\* download affordance are unchanged.
C5_MissingInputAborts ==
  [][(ClickStep /\ ~BothLoaded) =>
       /\ sent' = sent /\ requests' = requests
       /\ errorText' = "Please upload both a person and an outfit image."
       /\ errorDisplay' = "block"
       /\ UNCHANGED <<personFileData, outfitFileData, disabled>>
       /\ resultImage'.display = resultImage.display
       /\ downloadButton'.display = downloadButton.display]_vars

\* C5 witness: the message is shown with exactly one slot populated and no
\* request ever sent.
C5_Witness ==
  /\ errorText = "Please upload both a person and an outfit image."
  /\ errorDisplay = "block"
  /\ (personFileData = Null) # (outfitFileData = Null)
  /\ sent = 0

\* The parts of the first candidate of a well-formed response.
FirstParts(o) ==
  IF o.kind = "response" /\ o.candidates # <<>> /\ o.candidates[1].content # Null
     /\ o.candidates[1].content[1].parts # Null
  THEN o.candidates[1].content[1].parts[1]
  ELSE <<>>
ImageIndexes(o) == {i \in 1..Len(FirstParts(o)) : FirstParts(o)[i].inlineData # Null}
TextIndexes(o) ==
  {i \in 1..Len(FirstParts(o)) : FirstParts(o)[i].text # Null /\ FirstParts(o)[i].text[1] # ""}
Least(S) == CHOOSE i \in S : \A j \in S : i <= j
Malformed(o) ==
  /\ o.kind = "response" /\ o.candidates # <<>> /\ o.candidates[1].content # Null
  /\ o.candidates[1].content[1].parts = Null

\* C6: when the first candidate of the response contains an image payload
\* (m, c), the result image and the download affordance become visible with
\* target exactly 'data:' + m + ';base64,' + c of the first image part, and
\* the response displays no error message, even if it also has text parts.
C6_ImageShown ==
  [][\A id \in InFlight \ InFlight', o \in Outcomes :
       (Resolve(id, o) /\ ImageIndexes(o) # {}) =>
         LET img == FirstParts(o)[Least(ImageIndexes(o))].inlineData[1]
             uri == "data:" \o img.mimeType \o ";base64," \o img.data
         IN /\ resultImage' = [src |-> uri, display |-> "block"]
            /\ downloadButton'.href = uri
            /\ downloadButton'.display # "none"
            /\ UNCHANGED <<errorText, errorDisplay>>]_vars

\* C6 witness: the image of type image/png with content ABC is displayed and
\* offered for download, no error shown.
C6_Witness ==
  /\ resultImage = [src |-> "data:image/png;base64,ABC", display |-> "block"]
  /\ downloadButton = [href |-> "data:image/png;base64,ABC", display |-> "inline-block"]
  /\ errorDisplay = "none"
  /\ InFlight = {}

\* C7 (as claimed): when the response contains no image payload, the message
\* displayed is the text of the first text payload of the first candidate, or
\* the fixed generic failure message if there is none, and once the attempt
\* has resolved the result image and the download affordance are hidden.
C7_TextOrFallbackShown ==
  [][\A id \in InFlight \ InFlight', o \in Outcomes :
       (Resolve(id, o) /\ o.kind = "response" /\ ~Malformed(o) /\ ImageIndexes(o) = {}) =>
         /\ errorDisplay' = "block"
         /\ errorText' =
              IF TextIndexes(o) # {} THEN FirstParts(o)[Least(TextIndexes(o))].text[1]
              ELSE "Sorry, I couldn't generate an image. Please try again with different images."
         /\ resultImage'.display = "none"
         /\ downloadButton'.display = "none"]_vars

\* C8 (as claimed): when the service call fails with an exception, the
\* message shown is the same generic failure message as for a response with
\* neither an image nor a text payload.
C8_ExceptionShowsFallback ==
  [][\A id \in InFlight \ InFlight', o \in Outcomes :
       (Resolve(id, o) /\ (o.kind = "reject" \/ Malformed(o))) =>
         /\ errorDisplay' = "block"
         /\ errorText' = "Sorry, I couldn't generate an image. Please try again with different images."]_vars

\* C8 (amended): when the service call fails with an exception, the message
\* shown is the fixed message 'An error occurred while generating the image.
\* Please check the console for details.', which is not the message shown for
\* a response with neither an image nor a text payload.
C8_ExceptionShowsCatchMessage ==
  [][\A id \in InFlight \ InFlight', o \in Outcomes :
       /\ (Resolve(id, o) /\ (o.kind = "reject" \/ Malformed(o))) =>
            /\ errorDisplay' = "block"
            /\ errorText' = "An error occurred while generating the image. Please check the console for details."
       /\ (Resolve(id, o) /\ o.kind = "response" /\ ~Malformed(o)
             /\ ImageIndexes(o) = {} /\ TextIndexes(o) = {}) =>
            /\ errorDisplay' = "block"
            /\ errorText' = "Sorry, I couldn't generate an image. Please try again with different images."]_vars

\* C8 witness: the catch message is on display after a failed attempt while
\* the result image is hidden.
C8_Witness ==
  /\ errorText = "An error occurred while generating the image. Please check the console for details."
  /\ errorDisplay = "block" /\ resultImage.display = "none"
  /\ sent > 0 /\ InFlight = {}

\* The payload of a file: its declared media type and its base64 content.
PayloadOf(file) == [data |-> file.b64, mimeType |-> file.type]

\* C9: when the reads of an upload to a slot complete, that slot holds the
\* payload of the uploaded file, whatever the page state and the slot's
\* previous content, and the other slot is unchanged.
C9_UploadOverwritesSlot ==
  [][\A t \in reads :
       EncodeLoaded(t) =>
         IF t.type = "person"
         THEN personFileData' = Some(PayloadOf(t.file)) /\ UNCHANGED outfitFileData
         ELSE outfitFileData' = Some(PayloadOf(t.file)) /\ UNCHANGED personFileData]_vars

\* C9 witness: during a generation the person slot was overwritten by a new
\* upload; the outfit slot still holds what the request captured.
C9_Witness ==
  \E id \in InFlight :
    /\ requests[id].person # personFileData
    /\ requests[id].outfit = outfitFileData
    /\ \E f \in Files : personFileData = Some(PayloadOf(f))

\* C10: a dispatched request carries exactly the payloads the two slots held
\* at the click, and an upload completing before the response changes the
\* slot but not the payloads of the request in flight.
C10_RequestCapturesSlots ==
  [][/\ \A id \in InFlight' \ InFlight :
          /\ BothLoaded
          /\ requests'[id] = [person |-> personFileData, outfit |-> outfitFileData]
     /\ \A id \in InFlight' \cap InFlight : requests'[id] = requests[id]]_vars

\* C10 witness: a request in flight still carries the outfit payload of the
\* click although the outfit slot has been overwritten since.
C10_Witness ==
  \E id \in InFlight :
    /\ requests[id].outfit # outfitFileData
    /\ requests[id].person = personFileData
    /\ requests[id].person # requests[id].outfit

\* C11 (as claimed): the error message and the result image (with its
\* download affordance) are never visible at the same time, in any reachable
\* state, also when uploads and further clicks interleave with a pending
\* request.
C11_ErrorAndImageExclusive ==
  ~(errorDisplay = "block" /\ (resultImage.display # "none" \/ downloadButton.display # "none"))

\* The data URI of the first image part of the first candidate.
FirstImageUri(o) ==
  LET img == FirstParts(o)[Least(ImageIndexes(o))].inlineData[1]
  IN "data:" \o img.mimeType \o ";base64," \o img.data

\* C12: in every reachable state the download affordance is visible exactly
\* when the result image is visible, and its target is the data URI of the
\* displayed image, which is the content of the most recently resolved
\* successful response: a successful resolution sets both to the URI of its
\* image, and no other step changes either.
C12_DownloadMatchesImage ==
  /\ []((downloadButton.display # "none") <=> (resultImage.display # "none"))
  /\ [](downloadButton.href = resultImage.src)
  /\ [][\A id \in InFlight \ InFlight', o \in Outcomes :
          (Resolve(id, o) /\ ImageIndexes(o) # {}) =>
            /\ resultImage'.src = FirstImageUri(o)
            /\ downloadButton'.href = FirstImageUri(o)]_vars
  /\ [][(resultImage'.src # resultImage.src \/ downloadButton'.href # downloadButton.href) =>
          \E id \in InFlight \ InFlight', o \in Outcomes :
            Resolve(id, o) /\ ImageIndexes(o) # {}]_vars

\* C12 witness: after two attempts the image of the later response is shown
\* and the download affordance is visible with the same target.
C12_Witness ==
  /\ sent = 2 /\ InFlight = {}
  /\ resultImage = [src |-> "data:image/jpeg;base64,XYZ", display |-> "block"]
  /\ downloadButton.display # "none"
  /\ downloadButton.href = "data:image/jpeg;base64,XYZ"

\* C13: the two slots are changed only by upload read completions; a
\* generate click and the resolution of an attempt leave them unchanged, and
\* a slot that has become non-null never becomes null again.
C13_SlotsChangedOnlyByUploads ==
  [][/\ (slots' # slots) => \E t \in reads : EncodeLoaded(t)
     /\ (ClickStep \/ InFlight' # InFlight) => UNCHANGED <<personFileData, outfitFileData>>
     /\ (personFileData # Null) => (personFileData' # Null)
     /\ (outfitFileData # Null) => (outfitFileData' # Null)]_vars

\* C13 witness: after two attempts, one of which showed an image, both slots
\* still hold their (different) payloads.
C13_Witness ==
  /\ sent >= 2 /\ InFlight = {} /\ resultImage.display = "block"
  /\ BothLoaded /\ personFileData # outfitFileData

\* C14: each generate click that finds both slots populated issues exactly
\* one request, every request comes from such a click, and no resolution of
\* a request (refusal or exception included) sends another one.
C14_OneRequestPerPassingClick ==
  [][/\ (ClickStep /\ BothLoaded) => (sent' = sent + 1 /\ InFlight' = InFlight \cup {sent + 1})
     /\ (sent' # sent \/ InFlight' \ InFlight # {}) => (ClickStep /\ BothLoaded)
     /\ (InFlight \ InFlight' # {}) => (sent' = sent /\ InFlight' \subseteq InFlight)]_vars

\* C14 witness: one request was sent, it ended in the generic refusal message
\* and nothing is in flight.
C14_Witness ==
  /\ sent = 1 /\ InFlight = {} /\ errorDisplay = "block"
  /\ errorText = "Sorry, I couldn't generate an image. Please try again with different images."

\* C15: an upload whose read fails (the preview read or the encoding read)
\* leaves the slots and the trigger's enabled flag as they were and displays
\* no error message: none of its steps, from the selection to the failure,
\* touches them.
C15_ReadFailureIsSilent ==
  [][/\ \A t \in reads :
          (PreviewFailed(t) \/ EncodeFailed(t)) =>
            UNCHANGED <<personFileData, outfitFileData, disabled, errorText, errorDisplay>>
     /\ (reads' # reads /\ ~(\E t \in reads : EncodeLoaded(t))) =>
          UNCHANGED <<personFileData, outfitFileData, disabled, errorText, errorDisplay>>]_vars

\* C15 witness: the only upload showed its preview, then its encoding read
\* failed: the slot is still null, the trigger disabled, no error displayed.
C15_Witness ==
  /\ nUploads = 1 /\ reads = {} /\ preview["person"] # Null
  /\ personFileData = Null /\ outfitFileData = Null
  /\ disabled /\ errorDisplay = "none" /\ errorText = ""

\* C16: in every reachable state with no request in flight, the trigger is
\* enabled whenever both slots are non-null.
C16_EnabledWhenIdleAndLoaded == (InFlight = {} /\ BothLoaded) => ~disabled

\* C16 witness: both slots loaded before any request: the trigger is enabled.
C16_Witness == BothLoaded /\ InFlight = {} /\ sent = 0 /\ ~disabled

SlotOf(ty) == IF ty = "person" THEN personFileData ELSE outfitFileData

\* C17 (as claimed): when files are selected one after the other for the
\* same slot and their reads complete in any order, then once all pending
\* reads have completed the slot holds the payload of the file selected last.
C17_LastSelectedWins ==
  reads = {} =>
    \A ty \in Types :
      inputFiles[ty] # Null => SlotOf(ty) = Some(PayloadOf(inputFiles[ty][1]))

\* C18 (as claimed): whenever no file read is pending, the preview shown for
\* a slot is of the same file whose payload the slot holds.
C18_PreviewMatchesSlot ==
  reads = {} =>
    \A ty \in Types :
      \/ preview[ty] = Null /\ SlotOf(ty) = Null
      \/ \E f \in Files :
           preview[ty] = Some(ReadAsDataURL(f)) /\ SlotOf(ty) = Some(PayloadOf(f))

====
